---- MODULE Spec2Model ----
(***************************************************************************)
(* Conversation orchestration of the WhatsApp rent bot: one tenant, the    *)
(* guarantors the tenant names, the State Store tables that hold their     *)
(* records and conversation rows, and the worker threads that the webhook  *)
(* starts, one per inbound message.                                        *)
(*                                                                         *)
(* A worker runs handle_incoming_message in steps that are separated by    *)
(* State Store round trips: it loads the conversation row, dispatches on   *)
(* the loaded copy, and writes the row computed from that copy.            *)
(***************************************************************************)
EXTENDS Integers, Sequences, FiniteSets, TLC

(***************************************************************************)
(* Bounds of the model.                                                    *)
(***************************************************************************)
MaxThreads == 2      \* worker threads that may be in flight together
MaxTicks == 1        \* number of times the clock advances
MaxGuarantorRows == 3 \* rows the guarantors table may hold
MaxOverlaps == 1     \* messages that arrive while another one is being handled
MaxFaults == 1       \* calls to a collaborator that may fail

(***************************************************************************)
(* Program constants.                                                      *)
(***************************************************************************)
timeout_hours == 24
\* a step of the clock: just over the timeout threshold
TickHours == timeout_hours + 1

Threads == 1..MaxThreads

\* models.tenant.ConversationState, in declaration order
TenantStates ==
  <<"GREETING", "CONFIRMATION", "PERSONAL_INFO", "DOCUMENTS",
    "GUARANTOR_1", "GUARANTOR_2", "COMPLETED">>

\* models.tenant.DocumentType
DocumentType == {"id_card", "sephach", "payslips", "pnl", "bank_statements"}

\* position of a tenant state in the order of the flow
StateRank(s) == CHOOSE i \in 1..Len(TenantStates) : TenantStates[i] = s

TenantPhone == "pT"
\* the people a tenant may name as guarantors: a name and a normalized phone
Contacts == {[name |-> "n1", phone |-> "pA"], [name |-> "n2", phone |-> "pB"]}
GuarantorPhones == {c.phone : c \in Contacts}
TenantId == "t1"
NoneVal == "None"

(***************************************************************************)
(* Python dictionaries: functions from a finite set of keys to strings.    *)
(***************************************************************************)
EmptyDict == [k \in {} |-> NoneVal]

\* dict.get(key, default)
Get(d, k, default) == IF k \in DOMAIN d THEN d[k] ELSE default

\* {**d, **upd}
Merge(d, upd) ==
  [k \in (DOMAIN d) \cup (DOMAIN upd) |->
     IF k \in DOMAIN upd THEN upd[k] ELSE d[k]]

\* least member of a set of row positions, 0 if the set is empty: the row
\* a query's response.data[0] or a loop's first match refers to
First(S) == IF S = {} THEN 0 ELSE CHOOSE i \in S : \A j \in S : i <= j

VARIABLES
  now,           \* wall clock, in hours
  tenantKnown,   \* the tenants table holds a row with the tenant's phone
  tenant,        \* that row: occupation, whatsapp_status, documents_status
  conv,          \* conversation_states row of the tenant's phone
  guarantors,    \* guarantors table, in insertion order; id = position
  gconv,         \* guarantor_conversation_states rows, keyed by phone
  outbox,        \* outbound side-channel messages: the introductions sent per
                 \* guarantor id, the recipients of the guarantor completion
                 \* message, the number of tenant completion notices
  pc,            \* position of each worker thread
  msg,           \* the inbound message a worker handles
  loc,           \* a worker's local variables
  overlaps,      \* messages received so far while a worker was in flight
  faults,        \* calls to a collaborator that have failed so far
  arg,           \* arguments of a function called on its own
  ret            \* what that call returned

vars == <<now, tenantKnown, tenant, conv, guarantors, gconv, outbox, pc, msg, loc, overlaps, faults, arg, ret>>

(***************************************************************************)
(* State Store rows.                                                       *)
(***************************************************************************)
NoRow == [exists |-> FALSE, current_state |-> "GREETING",
          context_data |-> EmptyDict, last_message_time |-> 0]

NoGRow == [exists |-> FALSE, current_state |-> "GREETING",
           context_data |-> EmptyDict, last_message_time |-> 0]

NoMsg == [phone |-> NoneVal, kind |-> NoneVal]

NoResult == [is_valid |-> FALSE, parsed_data |-> EmptyDict]

NoLoc == [first |-> NoRow, snap |-> NoRow, reset |-> FALSE,
          result |-> NoResult, wrote |-> FALSE,
          document_type |-> NoneVal, doc_type |-> NoneVal,
          correct_document_type |-> NoneVal, classified |-> NoneVal,
          existing |-> 0, name |-> NoneVal, phone |-> NoneVal,
          gid |-> 0, gstate |-> NoneVal,
          errors |-> {}, response |-> {}, text |-> NoneVal,
          grow |-> NoGRow, fault |-> NoneVal, raised |-> FALSE]

AllPhones == {TenantPhone} \cup GuarantorPhones

NoArg == [fn |-> NoneVal]
NoRet == [returned |-> FALSE]

\* the types _detect_document_type reports for the uploads of the model
DetectedTypes == {"id_card", "bank_statements"}

InitState ==
  /\ now = 0
  /\ tenantKnown \in BOOLEAN
  /\ tenant = [occupation |-> NoneVal, whatsapp_status |-> "not_started",
               documents_status |-> EmptyDict]
  /\ conv = NoRow
  /\ guarantors = <<>>
  /\ gconv = [p \in AllPhones |-> NoGRow]
  /\ outbox = [intro |-> [id \in 1..MaxGuarantorRows |-> 0],
               guarantor_completion |-> {}, tenant_completion |-> 0]
  /\ pc = [t \in Threads |-> "idle"]
  /\ msg = [t \in Threads |-> NoMsg]
  /\ loc = [t \in Threads |-> NoLoc]
  /\ overlaps = 0
  /\ faults = 0

Init ==
  /\ InitState
  /\ arg = NoArg
  /\ ret = NoRet

(***************************************************************************)
(* State Store operations on the rows above.                               *)
(***************************************************************************)
\* position of the first guarantors row with the phone, 0 if there is none
find_guarantor_by_phone(phone) ==
  First({i \in 1..Len(guarantors) : guarantors[i].phone_number = phone})

\* rows of the tenant, as positions, in table order
get_guarantors_by_tenant(tenant_id) ==
  {i \in 1..Len(guarantors) : guarantors[i].tenant_id = tenant_id}

\* UPDATE ... WHERE phone_number = phone: touches the row only if it exists
update_conversation_state(row, new_state, context_data) ==
  IF row.exists
    THEN [exists |-> TRUE, current_state |-> new_state,
          context_data |-> context_data, last_message_time |-> now]
    ELSE row

\* the row a first contact inserts
create_conversation_state ==
  [exists |-> TRUE, current_state |-> "GREETING",
   context_data |-> EmptyDict, last_message_time |-> now]

\* variant: every conversation counts as timed out
_is_conversation_timed_out_always(row) ==
  TRUE

_is_conversation_timed_out(row) ==
  row.last_message_time < now - timeout_hours

\* variant: the reset puts the state back to GREETING and keeps the context
_reset_conversation_state_keeping(row) ==
  [create_conversation_state EXCEPT !.context_data = row.context_data]

\* _reset_conversation_state deletes the row; the get-or-create that follows
\* inserts a fresh one
_reset_conversation_state(row) ==
  create_conversation_state

(***************************************************************************)
(* Inbound messages.  A message comes from the tenant's phone or from a    *)
(* phone that a guarantors row carries; the webhook starts a worker for    *)
(* it.  serial = TRUE is the deployment in which the messages are handled  *)
(* one at a time; senders are the phones that write in.                    *)
(***************************************************************************)
Senders ==
  {TenantPhone} \cup {guarantors[i].phone_number : i \in 1..Len(guarantors)}

Receive(t, serial, senders) ==
  /\ pc[t] = "idle"
  /\ serial => \A u \in Threads : pc[u] = "idle"
  /\ \A u \in Threads : u < t => pc[u] # "idle"
  /\ \E p \in senders, k \in {"text", "media"} :
       msg' = [msg EXCEPT ![t] = [phone |-> p, kind |-> k]]
  /\ pc' = [pc EXCEPT ![t] = "load"]
  /\ overlaps' = IF \A u \in Threads : pc[u] = "idle" THEN overlaps ELSE overlaps + 1
  /\ overlaps' <= MaxOverlaps
  /\ UNCHANGED <<now, tenantKnown, tenant, conv, guarantors, gconv, outbox, loc, faults, arg, ret>>

\* time passes between two messages
Tick ==
  /\ \A t \in Threads : pc[t] = "idle"
  /\ now < MaxTicks * TickHours
  /\ now' = now + TickHours
  /\ UNCHANGED <<tenantKnown, tenant, conv, guarantors, gconv, outbox, pc, msg, loc, overlaps, faults, arg, ret>>

(***************************************************************************)
(* handle_incoming_message up to the dispatch: party resolution, load or   *)
(* creation of the conversation row, timeout reset.                        *)
(***************************************************************************)
\* variant: the conversation of the phone is loaded or created before the
\* guarantors table is asked
LoadState_tenant_first(t) ==
  /\ pc[t] = "load"
  /\ LET first == IF conv.exists THEN conv ELSE create_conversation_state
         timed == _is_conversation_timed_out(first)
         snap == IF timed THEN _reset_conversation_state(first) ELSE first
     IN /\ conv' = snap
        /\ loc' = [loc EXCEPT ![t] =
                     [NoLoc EXCEPT !.first = first, !.snap = snap,
                                   !.reset = timed]]
        /\ pc' = [pc EXCEPT ![t] =
                    IF find_guarantor_by_phone(msg[t].phone) # 0
                      THEN "g_route" ELSE "dispatch"]
  /\ UNCHANGED <<now, tenantKnown, tenant, guarantors, gconv, outbox, msg, overlaps, faults, arg, ret>>

LoadState(t) ==
  /\ pc[t] = "load"
  /\ IF find_guarantor_by_phone(msg[t].phone) # 0
       THEN /\ pc' = [pc EXCEPT ![t] = "g_route"]
            /\ UNCHANGED <<conv, loc>>
       ELSE LET first == IF conv.exists THEN conv ELSE create_conversation_state
                timed == _is_conversation_timed_out(first)
                snap == IF timed THEN _reset_conversation_state(first) ELSE first
            IN /\ conv' = snap
               /\ loc' = [loc EXCEPT ![t] =
                            [NoLoc EXCEPT !.first = first, !.snap = snap,
                                          !.reset = timed]]
               /\ pc' = [pc EXCEPT ![t] = "dispatch"]
  /\ UNCHANGED <<now, tenantKnown, tenant, guarantors, gconv, outbox, msg, overlaps, faults, arg, ret>>

\* the response text goes out and the worker ends
Respond(t) ==
  /\ pc[t] = "respond"
  /\ pc' = [pc EXCEPT ![t] = "idle"]
  /\ msg' = [msg EXCEPT ![t] = NoMsg]
  /\ loc' = [loc EXCEPT ![t] = NoLoc]
  /\ UNCHANGED <<now, tenantKnown, tenant, conv, guarantors, gconv, outbox, overlaps, faults, arg, ret>>

(***************************************************************************)
(* Validation Gateway replies the handlers may see.                        *)
(***************************************************************************)
\* truth value of a JSON value in an if: false, null, "" and 0 are falsy
Truthy(v) == v \notin {"False", NoneVal, "", "0"}

\* confirmed is true, false or null, or, as the model's JSON is passed on
\* with its types unchecked, a string
ConfirmationReplies ==
  {[is_valid |-> v, parsed_data |-> p] :
     v \in BOOLEAN,
     p \in {EmptyDict} \cup
           {[k \in {"confirmed"} |-> c] : c \in {"True", "False", NoneVal, "no"}}}

\* a parsed field is a value, or null when the model found none
FieldReplies(field) ==
  {[is_valid |-> v, parsed_data |-> p] :
     v \in BOOLEAN,
     p \in {EmptyDict} \cup {[k \in {field} |-> x] : x \in {"stated", NoneVal}}}

\* replies to a text sent while a document is awaited
DocumentTextReplies ==
  {[is_valid |-> v, parsed_data |-> EmptyDict] : v \in BOOLEAN}

\* outcome of document_ai_service.process_document for an upload
UploadResult(valid) == [is_valid |-> valid, parsed_data |-> EmptyDict]

\* tenant handlers run on the copy loaded by LoadState
InState(t, s) ==
  /\ pc[t] = "dispatch"
  /\ loc[t].snap.current_state = s

\* end of a handler: keep the gateway reply seen and whether the row was written
Done(t, result, wrote) ==
  /\ loc' = [loc EXCEPT ![t].result = result, ![t].wrote = wrote]
  /\ pc' = [pc EXCEPT ![t] = "respond"]

\* the feedback of a gateway reply
FeedbackText == "feedback"

\* ai_conversation_service.generate_response for a tenant: a text the
\* external model writes from the message, the state and the context
TenantTexts == {FeedbackText, "generated"}

\* end of _handle_confirmation_state_with_ai and
\* _handle_personal_info_state_with_ai: the handler's own response is dropped
\* and the generated text is returned; the model keeps the text returned for
\* a rejected reply
DoneWithAi(t, result, wrote) ==
  /\ \E ai_response \in TenantTexts :
       loc' = [loc EXCEPT ![t].result = result, ![t].wrote = wrote,
                          ![t].text = IF result.is_valid THEN NoneVal
                                      ELSE ai_response]
  /\ pc' = [pc EXCEPT ![t] = "respond"]

GreetingContext == [k \in {"tenant_id"} |-> TenantId]

_handle_greeting_state(t) ==
  /\ InState(t, "GREETING")
  /\ IF tenantKnown
       THEN /\ tenant' = [tenant EXCEPT !.whatsapp_status = "in_progress"]
            /\ conv' = update_conversation_state(conv, "CONFIRMATION", GreetingContext)
       ELSE /\ conv' = update_conversation_state(conv, "GREETING",
                          [k \in {"lookup_required"} |-> "True"])
            /\ UNCHANGED tenant
  /\ Done(t, NoResult, TRUE)
  /\ UNCHANGED <<now, tenantKnown, guarantors, gconv, outbox, msg, overlaps, faults, arg, ret>>

\* variant: the confirmation is taken from parsed_data alone
_handle_confirmation_state_unchecked(t) ==
  /\ InState(t, "CONFIRMATION")
  /\ \E validation_result \in ConfirmationReplies :
       LET context_data == loc[t].snap.context_data
           parsed_data == validation_result.parsed_data
           advance == Truthy(Get(parsed_data, "confirmed", "False"))
       IN /\ conv' = IF advance
                       THEN update_conversation_state(conv, "PERSONAL_INFO",
                              Merge(context_data, [k \in {"current_field"} |-> "occupation"]))
                       ELSE conv
          /\ Done(t, validation_result, advance)
  /\ UNCHANGED <<now, tenantKnown, tenant, guarantors, gconv, outbox, msg, overlaps, faults, arg, ret>>

_handle_confirmation_state(t) ==
  /\ InState(t, "CONFIRMATION")
  /\ \E validation_result \in ConfirmationReplies :
       LET context_data == loc[t].snap.context_data
           parsed_data == validation_result.parsed_data
           advance == /\ validation_result.is_valid
                      /\ Truthy(Get(parsed_data, "confirmed", "False"))
       IN /\ conv' = IF advance
                       THEN update_conversation_state(conv, "PERSONAL_INFO",
                              Merge(context_data, [k \in {"current_field"} |-> "occupation"]))
                       ELSE conv
          /\ DoneWithAi(t, validation_result, advance)
  /\ UNCHANGED <<now, tenantKnown, tenant, guarantors, gconv, outbox, msg, overlaps, faults, arg, ret>>

\* TenantUpdate drops the fields that are None: a null occupation is not stored
update_tenant_occupation(row, occupation) ==
  IF occupation = NoneVal THEN row ELSE [row EXCEPT !.occupation = occupation]

\* variant: the answer to the occupation question is followed by the last field
_handle_personal_info_state_skipping(t) ==
  /\ InState(t, "PERSONAL_INFO")
  /\ LET context_data == loc[t].snap.context_data
         current_field == Get(context_data, "current_field", "occupation")
         tenant_id == Get(context_data, "tenant_id", NoneVal)
     IN \E validation_result \in FieldReplies(current_field) :
          LET parsed_data == validation_result.parsed_data
              known == current_field \in {"occupation", "family_status", "number_of_children"}
              write == validation_result.is_valid /\ tenant_id # NoneVal /\ known
          IN /\ tenant' =
                  IF write /\ current_field = "occupation"
                    THEN update_tenant_occupation(tenant,
                           Get(parsed_data, "occupation", "stated"))
                    ELSE tenant
             /\ conv' =
                  IF ~write THEN conv
                  ELSE IF current_field = "occupation"
                    THEN update_conversation_state(conv, "PERSONAL_INFO",
                           Merge(context_data, [k \in {"current_field"} |-> "number_of_children"]))
                  ELSE IF current_field = "family_status"
                    THEN update_conversation_state(conv, "PERSONAL_INFO",
                           Merge(context_data, [k \in {"current_field"} |-> "number_of_children"]))
                  ELSE update_conversation_state(conv, "DOCUMENTS",
                           Merge(context_data,
                             [k \in {"current_document", "tenant_occupation"} |->
                                IF k = "current_document" THEN "id_card"
                                ELSE tenant.occupation]))
             /\ Done(t, validation_result, write)
  /\ UNCHANGED <<now, tenantKnown, guarantors, gconv, outbox, msg, overlaps, faults, arg, ret>>

_handle_personal_info_state(t) ==
  /\ InState(t, "PERSONAL_INFO")
  /\ LET context_data == loc[t].snap.context_data
         current_field == Get(context_data, "current_field", "occupation")
         tenant_id == Get(context_data, "tenant_id", NoneVal)
     IN \E validation_result \in FieldReplies(current_field) :
          LET parsed_data == validation_result.parsed_data
              known == current_field \in {"occupation", "family_status", "number_of_children"}
              write == validation_result.is_valid /\ tenant_id # NoneVal /\ known
          IN /\ tenant' =
                  IF write /\ current_field = "occupation"
                    THEN update_tenant_occupation(tenant,
                           Get(parsed_data, "occupation", "stated"))
                    ELSE tenant
             /\ conv' =
                  IF ~write THEN conv
                  ELSE IF current_field = "occupation"
                    THEN update_conversation_state(conv, "PERSONAL_INFO",
                           Merge(context_data, [k \in {"current_field"} |-> "family_status"]))
                  ELSE IF current_field = "family_status"
                    THEN update_conversation_state(conv, "PERSONAL_INFO",
                           Merge(context_data, [k \in {"current_field"} |-> "number_of_children"]))
                  ELSE update_conversation_state(conv, "DOCUMENTS",
                           Merge(context_data,
                             [k \in {"current_document", "tenant_occupation"} |->
                                IF k = "current_document" THEN "id_card"
                                ELSE tenant.occupation]))
             /\ DoneWithAi(t, validation_result, write)
  /\ UNCHANGED <<now, tenantKnown, guarantors, gconv, outbox, msg, overlaps, faults, arg, ret>>

(***************************************************************************)
(* Document Sequencer of the tenant flow.  classified is the document type *)
(* that _analyze_occupation_for_document_type returns in this call.        *)
(***************************************************************************)
Classifications == {"payslips", "pnl"}

\* variant: the financial document is the classifier's answer even when no
\* occupation is known
_get_next_document_no_default(current_document, tenant_occupation, conversation_context, classified) ==
  LET base_sequence == <<"id_card", "sephach", classified, "bank_statements">>
      current_index ==
        First({i \in 1..Len(base_sequence) : base_sequence[i] = current_document})
  IN IF current_index = 0 THEN NoneVal
     ELSE IF current_index < Len(base_sequence)
       THEN base_sequence[current_index + 1]
     ELSE NoneVal

_get_next_document(current_document, tenant_occupation, conversation_context, classified) ==
  LET occupation ==
        IF tenant_occupation = NoneVal
          THEN Get(conversation_context, "tenant_occupation", NoneVal)
          ELSE tenant_occupation
      financial == IF occupation # NoneVal THEN classified ELSE "payslips"
      base_sequence == <<"id_card", "sephach", financial, "bank_statements">>
      current_index ==
        First({i \in 1..Len(base_sequence) : base_sequence[i] = current_document})
  IN IF current_index = 0 THEN NoneVal              \* ValueError
     ELSE IF current_index < Len(base_sequence)
       THEN base_sequence[current_index + 1]
     ELSE NoneVal

\* the sequencer called on its own: a document, the occupation argument, the
\* context's copy of the occupation, and the classifier's answer in the call
Occupations == {NoneVal, "stated", "other"}

SequencerArgs ==
  {[fn |-> "_get_next_document", current_document |-> d, tenant_occupation |-> o,
    conversation_context |-> c, classified |-> f] :
     d \in DocumentType, o \in Occupations, f \in Classifications,
     c \in {EmptyDict} \cup {[k \in {"tenant_occupation"} |-> x] : x \in Occupations}}

CallSequencer ==
  /\ arg.fn = "_get_next_document"
  /\ ~ret.returned
  /\ ret' = [returned |-> TRUE,
             value |-> _get_next_document(arg.current_document, arg.tenant_occupation,
                         arg.conversation_context, arg.classified)]
  /\ UNCHANGED <<now, tenantKnown, tenant, conv, guarantors, gconv, outbox, pc, msg, loc,
                 overlaps, faults, arg>>

InitSequencer ==
  /\ InitState
  /\ arg \in SequencerArgs
  /\ ret = NoRet

SpecSequencer == InitSequencer /\ [][CallSequencer]_vars

\* documents_status[document_type] = {"status": status, ...}
update_documents_status(documents_status, document_type, status) ==
  Merge(documents_status, [k \in {document_type} |-> status])

\* the state written after an upload of document_type was validated
AfterValidated(t, document_type, classified) ==
  LET context_data == loc[t].snap.context_data
      next_document ==
        _get_next_document(document_type, tenant.occupation, context_data, classified)
  IN IF next_document # NoneVal
       THEN update_conversation_state(conv, "DOCUMENTS",
              Merge(context_data, [k \in {"current_document"} |-> next_document]))
       ELSE update_conversation_state(conv, "GUARANTOR_1",
              Merge(context_data, [k \in {"current_guarantor"} |-> "1"]))

\* the classifier's answer the sequencer used, None when it was not asked:
\* the sequencer runs after a validated upload and asks for a known occupation
AskedClassifier(t, valid, classified) ==
  IF /\ valid
     /\ \/ tenant.occupation # NoneVal
        \/ Get(loc[t].snap.context_data, "tenant_occupation", NoneVal) # NoneVal
    THEN classified ELSE NoneVal

\* the type an upload is processed as: an upload for the id_card slot is
\* processed as the type the detection reports
ProcessedType(current_document, detected) ==
  IF current_document = "id_card" /\ detected # "id_card"
    THEN detected ELSE current_document

\* variant: the sequence moves on after a rejected upload as well
_process_document_upload_always_next(t, current_document, correct_document_type) ==
  \E detected \in DetectedTypes, valid \in BOOLEAN, classified \in Classifications :
    LET document_type == ProcessedType(current_document, detected)
    IN /\ tenant' = [tenant EXCEPT !.documents_status =
                       update_documents_status(@, document_type,
                         IF valid THEN "validated" ELSE "rejected")]
       /\ conv' = AfterValidated(t, document_type, classified)
       /\ loc' = [loc EXCEPT ![t].result = UploadResult(valid), ![t].wrote = valid,
                             ![t].document_type = document_type,
                             ![t].correct_document_type = correct_document_type,
                             ![t].classified = AskedClassifier(t, valid, classified)]
       /\ pc' = [pc EXCEPT ![t] = "respond"]

_process_document_upload(t, current_document, correct_document_type) ==
  \E detected \in DetectedTypes, valid \in BOOLEAN, classified \in Classifications :
    LET document_type == ProcessedType(current_document, detected)
    IN /\ tenant' = [tenant EXCEPT !.documents_status =
                       update_documents_status(@, document_type,
                         IF valid THEN "validated" ELSE "rejected")]
       /\ conv' = IF valid THEN AfterValidated(t, document_type, classified) ELSE conv
       /\ loc' = [loc EXCEPT ![t].result = UploadResult(valid), ![t].wrote = valid,
                             ![t].document_type = document_type,
                             ![t].correct_document_type = correct_document_type,
                             ![t].classified = AskedClassifier(t, valid, classified)]
       /\ pc' = [pc EXCEPT ![t] = "respond"]

\* variant: only a queued PNL is replaced
needs_correction_pnl_only(current_document, correct_document_type) ==
  correct_document_type = "payslips" /\ current_document # "payslips"

\* lines 341-342: the classifier's answer differs from the queued document
needs_correction(current_document, correct_document_type) ==
  \/ correct_document_type = "pnl" /\ current_document # "pnl"
  \/ correct_document_type = "payslips" /\ current_document # "payslips"

_handle_documents_state(t) ==
  /\ InState(t, "DOCUMENTS")
  /\ LET context_data == loc[t].snap.context_data
         current_document == Get(context_data, "current_document", NoneVal)
         tenant_id == Get(context_data, "tenant_id", NoneVal)
     IN IF current_document = NoneVal \/ tenant_id = NoneVal
          THEN /\ Done(t, NoResult, FALSE)
               /\ UNCHANGED <<tenant, conv>>
          ELSE \E answer \in Classifications :
                 LET \* the classifier is asked for a queued financial document
                     \* of a tenant whose occupation is stored
                     correct_document_type ==
                       IF /\ current_document \in {"payslips", "pnl"}
                          /\ tenant.occupation # NoneVal
                         THEN answer ELSE NoneVal
                 IN IF needs_correction(current_document, correct_document_type)
                      THEN \* the queued financial document is replaced
                           /\ conv' = update_conversation_state(conv, "DOCUMENTS",
                                        Merge(context_data,
                                          [k \in {"current_document"} |-> correct_document_type]))
                           /\ loc' = [loc EXCEPT ![t].result = NoResult, ![t].wrote = TRUE,
                                         ![t].correct_document_type = correct_document_type,
                                         ![t].classified = correct_document_type]
                           /\ pc' = [pc EXCEPT ![t] = "respond"]
                           /\ UNCHANGED tenant
                      ELSE IF msg[t].kind = "media"
                        THEN _process_document_upload(t, current_document, correct_document_type)
                        ELSE \E validation_result \in DocumentTextReplies :
                               /\ loc' = [loc EXCEPT ![t].result = validation_result,
                                             ![t].wrote = FALSE,
                                             ![t].correct_document_type = correct_document_type]
                               /\ pc' = [pc EXCEPT ![t] = "respond"]
                               /\ UNCHANGED <<tenant, conv>>
  /\ UNCHANGED <<now, tenantKnown, guarantors, gconv, outbox, msg, overlaps, faults, arg, ret>>

_handle_completed_state(t) ==
  /\ InState(t, "COMPLETED")
  /\ Done(t, NoResult, FALSE)
  /\ UNCHANGED <<now, tenantKnown, tenant, conv, guarantors, gconv, outbox, msg, overlaps, faults, arg, ret>>

(***************************************************************************)
(* GUARANTOR_1 / GUARANTOR_2 of the tenant flow.  The handler parses a     *)
(* name and a phone, then runs guarantor_service.create_guarantor, which   *)
(* first queries the tenant's guarantors and then updates or inserts.      *)
(***************************************************************************)
GuarantorNumber(s) == IF s = "GUARANTOR_1" THEN 1 ELSE 2

\* variant: the query does not filter on guarantor_number
existing_guarantor_any_number(table, tenant_id, guarantor_number) ==
  First({i \in 1..Len(table) : table[i].tenant_id = tenant_id})

\* create_guarantor, the query: the first row of the tenant with the number
existing_guarantor(table, tenant_id, guarantor_number) ==
  First({i \in 1..Len(table) :
           /\ table[i].tenant_id = tenant_id
           /\ table[i].guarantor_number = guarantor_number})

\* variant: the handler goes on to create_guarantor with whatever was parsed
_handle_guarantor_state_unparsed(t) ==
  /\ pc[t] = "dispatch"
  /\ loc[t].snap.current_state \in {"GUARANTOR_1", "GUARANTOR_2"}
  /\ LET guarantor_num == GuarantorNumber(loc[t].snap.current_state)
         tenant_id == Get(loc[t].snap.context_data, "tenant_id", NoneVal)
     IN \E parsed_data \in Contacts \cup {[name |-> NoneVal, phone |-> NoneVal]} :
          IF tenant_id = NoneVal
            THEN Done(t, NoResult, FALSE)
            ELSE /\ loc' = [loc EXCEPT
                              ![t].existing = existing_guarantor(guarantors, tenant_id, guarantor_num),
                              ![t].name = parsed_data.name,
                              ![t].phone = parsed_data.phone]
                 /\ pc' = [pc EXCEPT ![t] = "upsert"]
  /\ UNCHANGED <<now, tenantKnown, tenant, conv, guarantors, gconv, outbox, msg, overlaps, faults, arg, ret>>

_handle_guarantor_state(t) ==
  /\ pc[t] = "dispatch"
  /\ loc[t].snap.current_state \in {"GUARANTOR_1", "GUARANTOR_2"}
  /\ LET guarantor_num == GuarantorNumber(loc[t].snap.current_state)
         tenant_id == Get(loc[t].snap.context_data, "tenant_id", NoneVal)
     IN \/ \* the reply is not JSON, or the name or the phone is missing
           /\ Done(t, NoResult, FALSE)
        \/ \E parsed_data \in Contacts :
             IF tenant_id = NoneVal
               THEN Done(t, NoResult, FALSE)
               ELSE /\ loc' = [loc EXCEPT
                                 ![t].existing = existing_guarantor(guarantors, tenant_id, guarantor_num),
                                 ![t].name = parsed_data.name,
                                 ![t].phone = parsed_data.phone]
                    /\ pc' = [pc EXCEPT ![t] = "upsert"]
  /\ UNCHANGED <<now, tenantKnown, tenant, conv, guarantors, gconv, outbox, msg, overlaps, faults, arg, ret>>

\* variant: the write inserts a row whether or not one was found
create_guarantor_insert_only(table, existing, tenant_id, guarantor_number, full_name, phone_number) ==
  Append(table,
    [tenant_id |-> tenant_id, guarantor_number |-> guarantor_number,
     full_name |-> full_name, phone_number |-> phone_number,
     whatsapp_status |-> "not_started", documents_status |-> EmptyDict])

\* create_guarantor, the write: update the row found, or insert a new one
create_guarantor(table, existing, tenant_id, guarantor_number, full_name, phone_number) ==
  IF existing # 0
    THEN [table EXCEPT ![existing].full_name = full_name,
                       ![existing].phone_number = phone_number]
    ELSE Append(table,
           [tenant_id |-> tenant_id, guarantor_number |-> guarantor_number,
            full_name |-> full_name, phone_number |-> phone_number,
            whatsapp_status |-> "not_started", documents_status |-> EmptyDict])

\* id of the row create_guarantor returns
created_id(table, existing) == IF existing # 0 THEN existing ELSE Len(table) + 1

\* the row of a phone after an update or insert of its guarantor conversation
update_guarantor_conversation_state(current_state, context_data) ==
  [exists |-> TRUE, current_state |-> current_state,
   context_data |-> context_data, last_message_time |-> now]

\* the row _send_guarantor_collection_message and _handle_guarantor_greeting write
InitialGuarantorRow ==
  update_guarantor_conversation_state("DOCUMENTS",
    [k \in {"current_document", "tenant_name"} |->
       IF k = "current_document" THEN "id_card" ELSE "tn"])

UpsertGuarantor(t) ==
  /\ pc[t] = "upsert"
  /\ loc[t].existing = 0 => Len(guarantors) < MaxGuarantorRows
  /\ LET guarantor_num == GuarantorNumber(loc[t].snap.current_state)
         context_data == loc[t].snap.context_data
         tenant_id == Get(context_data, "tenant_id", NoneVal)
         id == created_id(guarantors, loc[t].existing)
         table == create_guarantor(guarantors, loc[t].existing, tenant_id,
                                   guarantor_num, loc[t].name, loc[t].phone)
     IN \* _send_guarantor_collection_message
        /\ outbox' = [outbox EXCEPT !.intro[id] = @ + 1]
        /\ gconv' = [gconv EXCEPT ![loc[t].phone] = InitialGuarantorRow]
        /\ guarantors' = [table EXCEPT ![id].whatsapp_status = "in_progress"]
        /\ conv' =
             IF guarantor_num = 1
               THEN update_conversation_state(conv, "GUARANTOR_2",
                      Merge(context_data,
                        [k \in {"current_guarantor", "guarantor1_id"} |->
                           IF k = "current_guarantor" THEN "2" ELSE ToString(id)]))
               ELSE update_conversation_state(conv, "COMPLETED",
                      Merge(context_data,
                        [k \in {"guarantor2_id", "process_completed"} |->
                           IF k = "guarantor2_id" THEN ToString(id) ELSE "True"]))
  /\ Done(t, NoResult, TRUE)
  /\ UNCHANGED <<now, tenantKnown, tenant, msg, overlaps, faults, arg, ret>>

(***************************************************************************)
(* Guarantor flow: process_guarantor_message and its handlers.             *)
(***************************************************************************)
\* lines 43-54: the guarantor row and the state the message is routed by
RouteGuarantor(t) ==
  /\ pc[t] = "g_route"
  /\ LET gid == find_guarantor_by_phone(msg[t].phone)
         row == gconv[msg[t].phone]
     IN IF gid = 0
          THEN Done(t, NoResult, FALSE)
          ELSE /\ loc' = [loc EXCEPT ![t] =
                            [NoLoc EXCEPT !.gid = gid, !.phone = msg[t].phone,
                               !.grow = row,
                               !.gstate = IF row.exists THEN row.current_state
                                          ELSE "GREETING"]]
               /\ pc' = [pc EXCEPT ![t] = "g_handle"]
  /\ UNCHANGED <<now, tenantKnown, tenant, conv, guarantors, gconv, outbox, msg, overlaps, faults, arg, ret>>

GuarantorSequence == <<"id_card", "sephach", "payslips", "bank_statements", "pnl">>

_get_next_guarantor_document(current_document) ==
  LET current_index ==
        First({i \in 1..Len(GuarantorSequence) : GuarantorSequence[i] = current_document})
  IN IF current_index = 0 THEN "id_card"            \* ValueError
     ELSE IF current_index < Len(GuarantorSequence)
       THEN GuarantorSequence[current_index + 1]
     ELSE NoneVal

\* the errors a rejected upload may carry in its validation_result
ValidationErrors == {"name mismatch", "id number mismatch"}

\* ai_conversation_service.generate_response, as the set of the error strings
\* the returned text contains: the text is written by the external model from
\* a prompt that quotes the rejection reason, or is the fixed fallback text
generate_response(rejection_reason) == SUBSET rejection_reason

\* lines 234-241: the type an upload for the slot is processed as.
\* process_guarantor_document records no status of its own: it tests the key
\* is_valid of process_document's result, which has no such key
document_type_map(current_document) ==
  IF current_document \in {"id_card", "sephach", "payslips", "bank_statements"}
    THEN current_document
    ELSE "id_card"

_handle_guarantor_documents(t) ==
  /\ pc[t] = "g_handle"
  \* the branch of DOCUMENTS and the final else of the dispatch
  /\ loc[t].gstate \notin {"GREETING", "PERSONAL_INFO", "COMPLETED"}
  /\ LET phone == loc[t].phone
         gid == loc[t].gid
         conversation_state == gconv[phone]
         current_document == Get(conversation_state.context_data, "current_document", "id_card")
         next_document == _get_next_guarantor_document(current_document)
         doc_type == document_type_map(current_document)
     IN IF msg[t].kind # "media"
          THEN /\ Done(t, NoResult, FALSE)
               /\ UNCHANGED <<guarantors, gconv, outbox, overlaps, faults, arg, ret>>
          ELSE \E valid \in BOOLEAN, errors \in SUBSET ValidationErrors :
               \E ai_response \in generate_response(errors) :
                 \* a rejection carries errors; its message quotes each of them
                 \* and reaches the text only as a part of the prompt
                 /\ valid <=> errors = {}
                 /\ loc' = [loc EXCEPT ![t].result = UploadResult(valid),
                                       ![t].wrote = valid,
                                       ![t].document_type = current_document,
                                       ![t].doc_type = doc_type,
                                       ![t].errors = errors,
                                       ![t].response = ai_response]
                 /\ pc' = [pc EXCEPT ![t] = "respond"]
                 /\ IF ~valid
                      THEN UNCHANGED <<guarantors, gconv, outbox, overlaps, faults, arg, ret>>
                      ELSE IF next_document # NoneVal
                        THEN /\ guarantors' = [guarantors EXCEPT ![gid].documents_status =
                                  update_documents_status(@, current_document, "validated")]
                             /\ gconv' = [gconv EXCEPT ![phone] =
                                  update_guarantor_conversation_state("DOCUMENTS",
                                    Merge(conversation_state.context_data,
                                      [k \in {"current_document"} |-> next_document]))]
                             /\ UNCHANGED outbox
                        ELSE /\ outbox' = [outbox EXCEPT !.guarantor_completion = @ \cup {phone}]
                             /\ guarantors' = [guarantors EXCEPT
                                  ![gid].documents_status =
                                     update_documents_status(@, current_document, "validated"),
                                  ![gid].whatsapp_status = "completed"]
                             /\ gconv' = [gconv EXCEPT ![phone] =
                                  update_guarantor_conversation_state("COMPLETED",
                                    [k \in {"all_documents_collected"} |-> "True"])]
  /\ UNCHANGED <<now, tenantKnown, tenant, conv, msg, overlaps, faults, arg, ret>>

\* _handle_guarantor_completed subscripts the Tenant model (tenant['full_name']),
\* which raises; the handler's except clause returns and nothing is sent
_handle_guarantor_completed(t) ==
  /\ pc[t] = "g_handle"
  /\ loc[t].gstate = "COMPLETED"
  /\ Done(t, NoResult, FALSE)
  /\ UNCHANGED <<now, tenantKnown, tenant, conv, guarantors, gconv, outbox, msg, overlaps, faults, arg, ret>>

(***************************************************************************)
(* Completion fan-in.  No handler calls _check_all_guarantors_completed:   *)
(* its only caller, _send_guarantor_completion_message, is itself called   *)
(* from nowhere.  The predicate it would evaluate is kept here.            *)
(***************************************************************************)
RequiredDocs == {"id_card", "sephach", "payslips", "pnl", "bank_statements"}

check_guarantor_completion(tenant_id) ==
  LET rows == get_guarantors_by_tenant(tenant_id)
      is_completed(i) ==
        Cardinality({d \in RequiredDocs :
           Get(guarantors[i].documents_status, d, NoneVal) = "validated"})
          >= Cardinality(RequiredDocs)
      completed_count == Cardinality({i \in rows : is_completed(i)})
  IN IF rows = {} THEN FALSE ELSE completed_count = Cardinality(rows)

(***************************************************************************)
(* Specifications.                                                         *)
(***************************************************************************)
TenantStep(t) ==
  \/ LoadState(t)
  \/ _handle_greeting_state(t)
  \/ _handle_confirmation_state(t)
  \/ _handle_personal_info_state(t)
  \/ _handle_documents_state(t)
  \/ _handle_guarantor_state(t)
  \/ UpsertGuarantor(t)
  \/ _handle_completed_state(t)
  \/ Respond(t)

GuarantorStep(t) ==
  \/ RouteGuarantor(t)
  \/ _handle_guarantor_documents(t)
  \/ _handle_guarantor_completed(t)

\* every party writes in; the messages are handled one at a time
Next ==
  \/ \E t \in Threads : Receive(t, TRUE, Senders)
  \/ \E t \in Threads : TenantStep(t)
  \/ \E t \in Threads : GuarantorStep(t)

Spec == Init /\ [][Next]_vars

\* the tenant's phone alone, one message at a time, with hours passing
\* between the messages
NextTenant ==
  \/ Tick
  \/ \E t \in Threads : Receive(t, TRUE, {TenantPhone})
  \/ \E t \in Threads : TenantStep(t)

SpecTenant == Init /\ [][NextTenant]_vars

\* the webhook starts a thread per message: the workers overlap
NextConc ==
  \/ \E t \in Threads : Receive(t, FALSE, {TenantPhone})
  \/ \E t \in Threads : TenantStep(t)

SpecConc == Init /\ [][NextConc]_vars

(***************************************************************************)
(* Guarantors that answer late.  The tenant writes in first; hours pass    *)
(* once a guarantor has been introduced, and from then on the guarantors   *)
(* write in.                                                               *)
(***************************************************************************)
IntroducedPhones == {p \in GuarantorPhones : gconv[p].exists}

TickAfterIntroduction ==
  /\ IntroducedPhones # {}
  /\ Tick

LateSenders == IF now = 0 THEN Senders ELSE Senders \ {TenantPhone}

NextLate ==
  \/ TickAfterIntroduction
  \/ \E t \in Threads : Receive(t, TRUE, LateSenders)
  \/ \E t \in Threads : TenantStep(t)
  \/ \E t \in Threads : GuarantorStep(t)

SpecLate == Init /\ [][NextLate]_vars

(***************************************************************************)
(* Rows found in the store.  The tenant has named one guarantor, by a      *)
(* phone that may be the tenant's own: _handle_guarantor_state compares    *)
(* the phone it is given with nothing.  The guarantor's conversation was   *)
(* stored before this version ran, possibly under a state that no handler  *)
(* of this version writes.                                                 *)
(***************************************************************************)
\* stored states that the guarantor flow of this version never writes:
\* PERSONAL_INFO, which the dispatch names, and one that it does not name
LegacyStates == {"PERSONAL_INFO", "VERIFICATION"}

\* lines 151-211: a text that parses moves the row to DOCUMENTS with a new
\* context; _update_guarantor_personal_info fails on supabase_service.table
\* and logs; every other message is answered and changes nothing
_handle_guarantor_personal_info(t) ==
  /\ pc[t] = "g_handle"
  /\ loc[t].gstate = "PERSONAL_INFO"
  /\ IF msg[t].kind = "text"
       THEN \E personal_info \in {NoneVal, "info"} :
              IF personal_info # NoneVal
                THEN /\ gconv' = [gconv EXCEPT ![loc[t].phone] =
                          update_guarantor_conversation_state("DOCUMENTS",
                            [k \in {"personal_info_collected"} |-> "True"])]
                     /\ Done(t, NoResult, TRUE)
                ELSE /\ Done(t, NoResult, FALSE)
                     /\ UNCHANGED gconv
       ELSE /\ Done(t, NoResult, FALSE)
            /\ UNCHANGED gconv
  /\ UNCHANGED <<now, tenantKnown, tenant, conv, guarantors, outbox, msg, overlaps, faults, arg, ret>>

\* phones of the guarantors table
GuarantorSenders == {guarantors[i].phone_number : i \in 1..Len(guarantors)}

\* the tenant is at GUARANTOR_2 after naming the first guarantor; that
\* guarantor's conversation is at some document of the sequence, under a
\* state of this version or a legacy one
InitLegacy ==
  /\ now = 0
  /\ tenantKnown = TRUE
  /\ tenant = [occupation |-> NoneVal, whatsapp_status |-> "in_progress",
               documents_status |-> EmptyDict]
  /\ conv = [exists |-> TRUE, current_state |-> "GUARANTOR_2",
             context_data |->
               [k \in {"tenant_id", "current_guarantor", "guarantor1_id"} |->
                  IF k = "tenant_id" THEN TenantId
                  ELSE IF k = "current_guarantor" THEN "2" ELSE "1"],
             last_message_time |-> 0]
  /\ \E phone \in {"pA", TenantPhone},
        state \in LegacyStates \cup {"DOCUMENTS"},
        i \in 1..Len(GuarantorSequence) :
       /\ guarantors =
            <<[tenant_id |-> TenantId, guarantor_number |-> 1,
               full_name |-> "n1", phone_number |-> phone,
               whatsapp_status |-> "in_progress",
               documents_status |->
                 [d \in {GuarantorSequence[j] : j \in 1..(i - 1)} |-> "validated"]]>>
       /\ gconv = [p \in AllPhones |->
                  IF p = phone
                    THEN [exists |-> TRUE, current_state |-> state,
                          context_data |->
                            [k \in {"current_document", "tenant_name"} |->
                               IF k = "current_document"
                                 THEN GuarantorSequence[i] ELSE "tn"],
                          last_message_time |-> 0]
                    ELSE NoGRow]
  /\ outbox = [intro |-> [id \in 1..MaxGuarantorRows |-> 0],
               guarantor_completion |-> {}, tenant_completion |-> 0]
  /\ pc = [t \in Threads |-> "idle"]
  /\ msg = [t \in Threads |-> NoMsg]
  /\ loc = [t \in Threads |-> NoLoc]
  /\ overlaps = 0
  /\ faults = 0
  /\ arg = NoArg
  /\ ret = NoRet

\* the guarantors write in, one message at a time
NextLegacy ==
  \/ \E t \in Threads : Receive(t, TRUE, GuarantorSenders)
  \/ \E t \in Threads : LoadState(t)
  \/ \E t \in Threads : GuarantorStep(t)
  \/ \E t \in Threads : _handle_guarantor_personal_info(t)
  \/ \E t \in Threads : Respond(t)

SpecLegacy == InitLegacy /\ [][NextLegacy]_vars

(***************************************************************************)
(* Redelivery.  The webhook provider delivers an event again when it saw   *)
(* no timely acknowledgement.  process_whatsapp_message takes the sender,  *)
(* the body and the media of an event and never its id, so a redelivered   *)
(* event is handled as a new message.                                      *)
(***************************************************************************)
\* was the message of worker t delivered before
Redelivered(t) == "first" \in DOMAIN msg[t]

\* an event whose handling wrote to the State Store arrives again and is
\* handled after the first handling; the message keeps what the first
\* handling extracted from it and the records that handling left
Redeliver(t) ==
  /\ pc[t] = "respond"
  /\ loc[t].wrote
  /\ ~Redelivered(t)
  /\ msg' = [msg EXCEPT ![t] =
               [phone |-> msg[t].phone, kind |-> msg[t].kind,
                first |-> [result |-> loc[t].result, name |-> loc[t].name,
                           contact |-> loc[t].phone,
                           conv |-> conv, tenant |-> tenant,
                           guarantors |-> guarantors, gconv |-> gconv]]]
  /\ loc' = [loc EXCEPT ![t] = NoLoc]
  /\ pc' = [pc EXCEPT ![t] = "load"]
  /\ UNCHANGED <<now, tenantKnown, tenant, conv, guarantors, gconv, outbox, overlaps, faults, arg, ret>>

NextRedelivery ==
  \/ \E t \in Threads : Receive(t, TRUE, Senders)
  \/ \E t \in Threads : TenantStep(t)
  \/ \E t \in Threads : GuarantorStep(t)
  \/ \E t \in Threads : Redeliver(t)

SpecRedelivery == Init /\ [][NextRedelivery]_vars

(***************************************************************************)
(* Failures of the collaborators.  A call to the State Store, the          *)
(* Validation Gateway or the outbound transport may raise; each action     *)
(* below is a handling in which one call fails, with the effect the        *)
(* except clauses on its way give it.                                      *)
(***************************************************************************)
\* the places of handle_incoming_message a failure can surface at
FailurePoints == {"lookup", "load", "reset", "handler"}

\* variant: the guarantor lookup, which runs before the try, lets its
\* exception through
handle_incoming_message_raises_unguarded(point) == point = "lookup"

\* whether an exception at the point leaves handle_incoming_message: the
\* lookup swallows its own (guarantor_service.py 142-144), the reset
\* swallows the delete's (lines 133-138), the rest is caught at 97-99 or by
\* the handler
handle_incoming_message_raises(point) == FALSE

\* end of a handling in which a call failed at the point
Failed(t, point, base) ==
  /\ loc' = [loc EXCEPT ![t] = [base EXCEPT !.fault = point,
                                  !.raised = handle_incoming_message_raises(point)]]
  /\ pc' = [pc EXCEPT ![t] = "respond"]

\* lines 55-73 with a failing store
LoadStateFault(t) ==
  /\ pc[t] = "load"
  /\ faults < MaxFaults
  /\ faults' = faults + 1
  /\ IF find_guarantor_by_phone(msg[t].phone) # 0
       THEN \* the lookup returns None: the guarantor's message takes the
            \* tenant path under its own phone and its guarantor
            \* conversation is not touched
            /\ Failed(t, "lookup", [NoLoc EXCEPT !.phone = msg[t].phone,
                                      !.grow = gconv[msg[t].phone]])
            /\ UNCHANGED conv
       ELSE LET first == IF conv.exists THEN conv ELSE create_conversation_state
                timed == _is_conversation_timed_out(first)
                base == [NoLoc EXCEPT !.first = conv, !.snap = conv]
            IN \/ \* get_conversation_state or the first create raises
                  /\ Failed(t, "load", base)
                  /\ UNCHANGED conv
               \/ \* the delete of the reset raises and is swallowed: the
                  \* handler runs on the row that timed out
                  /\ timed
                  /\ conv' = first
                  /\ loc' = [loc EXCEPT ![t] =
                               [NoLoc EXCEPT !.first = first, !.snap = first,
                                             !.fault = "reset"]]
                  /\ pc' = [pc EXCEPT ![t] = "dispatch"]
               \/ \* the row is deleted and the create after it raises
                  /\ timed
                  /\ conv' = NoRow
                  /\ Failed(t, "load", [base EXCEPT !.snap = NoRow, !.reset = TRUE])
  /\ UNCHANGED <<now, tenantKnown, tenant, guarantors, gconv, outbox, msg, overlaps, arg, ret>>

\* what a tenant handler has stored when a later call of it raises: the
\* writes that come before the update of the conversation row
WrittenBeforeFailure(t) ==
  LET snap == loc[t].snap
      current_document == Get(snap.context_data, "current_document", NoneVal)
  IN {tenant} \cup
     (IF snap.current_state = "GREETING" /\ tenantKnown
        THEN {[tenant EXCEPT !.whatsapp_status = "in_progress"]}
      ELSE IF /\ snap.current_state = "PERSONAL_INFO"
              /\ Get(snap.context_data, "current_field", "occupation") = "occupation"
        THEN {update_tenant_occupation(tenant, "stated")}
      ELSE IF /\ snap.current_state = "DOCUMENTS" /\ msg[t].kind = "media"
              /\ current_document # NoneVal
        THEN {[tenant EXCEPT !.documents_status =
                 update_documents_status(@, ProcessedType(current_document, d), s)] :
                d \in DetectedTypes, s \in {"validated", "rejected"}}
      ELSE {})

\* a call of a tenant handler raises: its except clause returns the apology
\* and the conversation row is not written
HandlerFault(t) ==
  /\ pc[t] = "dispatch"
  /\ faults < MaxFaults
  /\ faults' = faults + 1
  /\ loc[t].snap.current_state # "COMPLETED"
  /\ tenant' \in WrittenBeforeFailure(t)
  /\ Failed(t, "handler", loc[t])
  /\ UNCHANGED <<now, tenantKnown, conv, guarantors, gconv, outbox, msg, overlaps, arg, ret>>

\* _handle_guarantor_state from create_guarantor on, with a failing call
UpsertGuarantorFault(t) ==
  /\ pc[t] = "upsert"
  /\ faults < MaxFaults
  /\ faults' = faults + 1
  /\ loc[t].existing = 0 => Len(guarantors) < MaxGuarantorRows
  /\ LET guarantor_num == GuarantorNumber(loc[t].snap.current_state)
         context_data == loc[t].snap.context_data
         tenant_id == Get(context_data, "tenant_id", NoneVal)
         id == created_id(guarantors, loc[t].existing)
         table == create_guarantor(guarantors, loc[t].existing, tenant_id,
                                   guarantor_num, loc[t].name, loc[t].phone)
         written ==
           IF guarantor_num = 1
             THEN update_conversation_state(conv, "GUARANTOR_2",
                    Merge(context_data,
                      [k \in {"current_guarantor", "guarantor1_id"} |->
                         IF k = "current_guarantor" THEN "2" ELSE ToString(id)]))
             ELSE update_conversation_state(conv, "COMPLETED",
                    Merge(context_data,
                      [k \in {"guarantor2_id", "process_completed"} |->
                         IF k = "guarantor2_id" THEN ToString(id) ELSE "True"]))
     IN \/ \* create_guarantor fails and reports success = False
           /\ Failed(t, "handler", loc[t])
           /\ UNCHANGED <<conv, guarantors, gconv, outbox>>
        \/ \* the transport fails on the introduction: the helper swallows
           \* it, the guarantor conversation is not initialised and the
           \* tenant moves on
           /\ guarantors' = table
           /\ conv' = written
           /\ loc' = [loc EXCEPT ![t].fault = "handler", ![t].wrote = TRUE]
           /\ pc' = [pc EXCEPT ![t] = "respond"]
           /\ UNCHANGED <<gconv, outbox>>
        \/ \* the update of the tenant's row raises after the guarantor was
           \* stored and introduced
           /\ outbox' = [outbox EXCEPT !.intro[id] = @ + 1]
           /\ gconv' = [gconv EXCEPT ![loc[t].phone] = InitialGuarantorRow]
           /\ guarantors' = [table EXCEPT ![id].whatsapp_status = "in_progress"]
           /\ Failed(t, "handler", loc[t])
           /\ UNCHANGED conv
  /\ UNCHANGED <<now, tenantKnown, tenant, msg, overlaps, arg, ret>>

\* _handle_guarantor_greeting: a guarantor whose conversation row is missing
\* or could not be read is greeted and put at the first document; the row is
\* missing when the introduction failed
_handle_guarantor_greeting(t) ==
  /\ pc[t] = "g_handle"
  /\ loc[t].gstate = "GREETING"
  /\ gconv' = [gconv EXCEPT ![loc[t].phone] = InitialGuarantorRow]
  /\ guarantors' = [guarantors EXCEPT ![loc[t].gid].whatsapp_status = "in_progress"]
  /\ Done(t, NoResult, TRUE)
  /\ UNCHANGED <<now, tenantKnown, tenant, conv, outbox, msg, overlaps, faults, arg, ret>>

\* process_guarantor_message with a failing call.  The guarantor service
\* swallows the failures of its store calls and returns None or False, so
\* the handler goes on after them; a failing transport or document
\* processing raises into the handler's except clause
GuarantorFault(t) ==
  /\ faults < MaxFaults
  /\ faults' = faults + 1
  /\ pc[t] \in {"g_route", "g_handle"}
  /\ LET phone == msg[t].phone
         gid == find_guarantor_by_phone(phone)
         current_document == Get(gconv[phone].context_data, "current_document", "id_card")
         next_document == _get_next_guarantor_document(current_document)
         last == next_document = NoneVal
         base == IF pc[t] = "g_route"
                   THEN [NoLoc EXCEPT !.phone = phone, !.gid = gid, !.grow = gconv[phone]]
                   ELSE loc[t]
         recorded == [guarantors EXCEPT ![gid].documents_status =
                        update_documents_status(@, current_document, "validated")]
         advanced ==
           [gconv EXCEPT ![phone] =
              IF last
                THEN update_guarantor_conversation_state("COMPLETED",
                       [k \in {"all_documents_collected"} |-> "True"])
                ELSE update_guarantor_conversation_state("DOCUMENTS",
                       Merge(gconv[phone].context_data,
                         [k \in {"current_document"} |-> next_document]))]
         notified == IF last
                       THEN [outbox EXCEPT !.guarantor_completion = @ \cup {phone}]
                       ELSE outbox
         upload == /\ pc[t] = "g_handle" /\ loc[t].gstate = "DOCUMENTS"
                   /\ msg[t].kind = "media" /\ gid # 0
     IN \/ \* the guarantor lookup fails, or a call raises before any write
           /\ Failed(t, "handler", base)
           /\ UNCHANGED <<guarantors, gconv, outbox>>
        \/ \* the read of the conversation row fails: the message goes to
           \* _handle_guarantor_greeting as a first one
           /\ pc[t] = "g_route" /\ gid # 0
           /\ loc' = [loc EXCEPT ![t] =
                        [base EXCEPT !.gstate = "GREETING", !.fault = "handler",
                           !.raised = handle_incoming_message_raises("handler")]]
           /\ pc' = [pc EXCEPT ![t] = "g_handle"]
           /\ UNCHANGED <<guarantors, gconv, outbox>>
        \/ \* the write of documents_status fails
           /\ upload
           /\ guarantors' = IF last
                               THEN [guarantors EXCEPT ![gid].whatsapp_status = "completed"]
                               ELSE guarantors
           /\ gconv' = advanced
           /\ outbox' = notified
           /\ Failed(t, "handler", [base EXCEPT !.wrote = TRUE])
        \/ \* the write of the conversation row fails
           /\ upload
           /\ guarantors' = IF last
                               THEN [recorded EXCEPT ![gid].whatsapp_status = "completed"]
                               ELSE recorded
           /\ outbox' = notified
           /\ Failed(t, "handler", base)
           /\ UNCHANGED gconv
        \/ \* the transport fails on the completion message, which is sent
           \* before the row is written
           /\ upload /\ last
           /\ guarantors' = recorded
           /\ Failed(t, "handler", base)
           /\ UNCHANGED <<gconv, outbox>>
        \/ \* a call after the write of the row fails
           /\ upload
           /\ guarantors' = recorded
           /\ gconv' = advanced
           /\ outbox' = notified
           /\ Failed(t, "handler", [base EXCEPT !.wrote = TRUE])
  /\ UNCHANGED <<now, tenantKnown, tenant, conv, msg, overlaps, arg, ret>>

\* the clock of the specification with failures advances while no guarantor
\* is named, which is when a reset of the tenant's conversation can fail
TickBeforeGuarantors ==
  /\ guarantors = <<>>
  /\ Tick

\* the tenant and the guarantor of the first contact write in, one message at
\* a time, and calls may fail
FaultSenders == Senders \ {c.phone : c \in Contacts \ {CHOOSE c \in Contacts : c.name = "n1"}}

\* a behaviour is followed up to the response of its last failing handling:
\* a message is taken in while a call may still fail
ReceiveBeforeFailure(t) ==
  /\ faults < MaxFaults
  /\ Receive(t, TRUE, FaultSenders)

NextFault ==
  \/ TickBeforeGuarantors
  \/ \E t \in Threads : ReceiveBeforeFailure(t)
  \/ \E t \in Threads : TenantStep(t)
  \/ \E t \in Threads : GuarantorStep(t)
  \/ \E t \in Threads : _handle_guarantor_greeting(t)
  \/ \E t \in Threads : LoadStateFault(t)
  \/ \E t \in Threads : HandlerFault(t)
  \/ \E t \in Threads : UpsertGuarantorFault(t)
  \/ \E t \in Threads : GuarantorFault(t)

SpecFault == Init /\ [][NextFault]_vars

(***************************************************************************)
(* Validation Gateway: vertex_ai_service.validate_human_response.  A text  *)
(* is the set of the words it contains; a JSON object is a record.         *)
(***************************************************************************)
\* the words a reply of the model is built from, and what each contains as
\* a substring
ReplyWords == {"yes", "no", "none", "occupation", "married", "3"}

Substrings(word) == IF word = "none" THEN {"none", "no"} ELSE {word}

\* keyword in text, for a text given as its set of words
Mentions(text, keyword) == \E word \in text : keyword \in Substrings(word)

\* len(response) >= 3: any word but "no" and "3" alone, or two words
AtLeastThree(response) ==
  \/ response \cap {"yes", "none", "occupation", "married"} # {}
  \/ Cardinality(response) >= 2

Fields == {"occupation", "family_status", "number_of_children"}

\* lines 97-192: the template chosen from context["current_field"] and the
\* question; only the confirmation template quotes the question
_create_validation_prompt(question, response, context) ==
  LET current_field == Get(context, "current_field", "unknown")
      template ==
        IF current_field = "occupation" \/ "occupation" \in question
          THEN "occupation"
        ELSE IF current_field = "family_status" \/ "family_status" \in question
          THEN "family_status"
        ELSE IF current_field = "number_of_children" \/ "number_of_children" \in question
          THEN "number_of_children"
        ELSE "confirmation"
  IN [template |-> template,
      text |-> (IF template = "confirmation" THEN question ELSE {template})
                 \cup {f \in Fields : Mentions(response, f)},
      response |-> response]

\* the dicts the fallback builds
Reply(is_valid, feedback, parsed_data, confidence) ==
  [is_valid |-> is_valid, feedback |-> feedback, parsed_data |-> parsed_data,
   confidence |-> confidence]

\* lines 264-392; the reply is read back from the prompt
_validate_response_rules_fallback(prompt) ==
  LET response == prompt.response
  IN IF "occupation" \in prompt.text
       THEN IF AtLeastThree(response)
              THEN Reply(TRUE, "thanks", [k \in {"occupation"} |-> response], "0.9")
              ELSE Reply(FALSE, "ask_occupation", EmptyDict, "0.1")
     ELSE IF "family_status" \in prompt.text
       THEN \* a status of status_map, or the reply as it is
            Reply(TRUE, "thanks", [k \in {"family_status"} |-> response],
                  IF Mentions(response, "married") THEN "0.9" ELSE "0.8")
     ELSE IF "number_of_children" \in prompt.text
       THEN IF Mentions(response, "3")
              THEN Reply(TRUE, "thanks", [k \in {"number_of_children"} |-> 3], "0.9")
            ELSE IF Mentions(response, "none")
              THEN Reply(TRUE, "thanks", [k \in {"number_of_children"} |-> 0], "0.9")
            ELSE Reply(FALSE, "ask_number", EmptyDict, "0.1")
     ELSE \* confirmation_words, then rejection_words
          IF Mentions(response, "yes")
       THEN Reply(TRUE, "thanks", [k \in {"confirmed"} |-> "True"], "0.9")
     ELSE IF Mentions(response, "no")
       THEN Reply(TRUE, "what_to_change", [k \in {"confirmed"} |-> "False"], "0.9")
     ELSE Reply(TRUE, "continue", [k \in {"extracted_info"} |-> response], "0.7")

\* the parsed_data objects a reply of the external model may carry
ModelParsedData ==
  {EmptyDict} \cup
  {[k \in {"occupation"} |-> x] : x \in {"stated", NoneVal}} \cup
  {[k \in {"confirmed"} |-> c] : c \in {"True", "False", NoneVal}}

\* what generate_content can produce: an exception, no text, a text that is
\* not JSON, JSON that is not an object, and JSON objects with or without
\* the keys the prompt asks for
ModelOutcomes ==
  {[kind |-> k] : k \in {"exception", "empty", "not_json", "not_object"}} \cup
  {[kind |-> "object", result |-> r] :
     r \in {Reply(v, "model", p, "0.9") : v \in BOOLEAN, p \in ModelParsedData}
           \cup {[parsed_data |-> p] : p \in ModelParsedData}
           \cup {[is_valid |-> TRUE, feedback |-> "model"]}}

\* lines 220-262: every failure, an empty text and an empty or null
\* parsed_data end in the fallback; any other object is returned as it is
_call_vertex_ai_model(prompt, outcome) ==
  IF outcome.kind # "object"
    THEN _validate_response_rules_fallback(prompt)
  ELSE LET result == outcome.result
           parsed_data == IF "parsed_data" \in DOMAIN result
                            THEN result.parsed_data ELSE EmptyDict
       IN IF \/ parsed_data = EmptyDict
             \/ /\ DOMAIN parsed_data = {"confirmed"}
                /\ parsed_data["confirmed"] = NoneVal
            THEN _validate_response_rules_fallback(prompt)
            ELSE result

\* lines 60-89; _ensure_initialized runs before the try and re-raises
validate_human_response(question, response, context, initialized, outcome) ==
  IF ~initialized
    THEN [raised |-> TRUE]
    ELSE [raised |-> FALSE,
          value |-> _call_vertex_ai_model(
                      _create_validation_prompt(question, response, context), outcome)]

GatewayArgs ==
  {[fn |-> "validate_human_response", question |-> q, response |-> r,
    context |-> c, initialized |-> i, outcome |-> o] :
     q \in {{}} \cup {{f} : f \in Fields},
     r \in SUBSET ReplyWords,
     c \in {EmptyDict} \cup {[k \in {"current_field"} |-> f] : f \in Fields},
     i \in BOOLEAN,
     o \in ModelOutcomes}

CallGateway ==
  /\ arg.fn = "validate_human_response"
  /\ ~ret.returned
  /\ ret' = [returned |-> TRUE,
             result |-> validate_human_response(arg.question, arg.response,
                          arg.context, arg.initialized, arg.outcome)]
  /\ UNCHANGED <<now, tenantKnown, tenant, conv, guarantors, gconv, outbox, pc, msg, loc,
                 overlaps, faults, arg>>

InitGateway ==
  /\ InitState
  /\ arg \in GatewayArgs
  /\ ret = NoRet

SpecGateway == InitGateway /\ [][CallGateway]_vars

(***************************************************************************)
(* whatsapp_service.download_media, called on its own.  The outcome of     *)
(* each attempt is the transport's.                                        *)
(***************************************************************************)
\* default of the parameter max_retries, the value the only caller uses
max_retries_default == 3

\* what one attempt ends with: the content, or one of the errors the three
\* except clauses catch
AttemptErrors == {"HTTPError", "RequestException", "ValueError"}
AttemptOutcomes == {"content"} \cup AttemptErrors

DownloadArgs ==
  {[fn |-> "download_media", max_retries |-> m, retry_delay |-> d,
    configured |-> c] :
     m \in 0..max_retries_default, d \in {1, 2}, c \in BOOLEAN}

\* variant: the wait grows by retry_delay with every attempt
sleep_time_linear(retry_delay, attempt) ==
  retry_delay * (attempt + 1)

\* line 395
sleep_time(retry_delay, attempt) ==
  retry_delay * (2 ^ attempt)

\* the state of a call: attempt is the loop variable, log the outcomes of
\* the attempts made, slept the waits made
StartedCall ==
  [returned |-> FALSE, attempt |-> 0, log |-> <<>>, slept |-> <<>>,
   last_exception |-> NoneVal, content |-> NoneVal, raised |-> NoneVal]

\* one pass of the loop of lines 314-401; _ensure_initialized raises ahead
\* of the loop when the access token or the phone number id is missing
download_media_attempt ==
  /\ arg.fn = "download_media"
  /\ ~ret.returned
  /\ ret.attempt <= arg.max_retries
  /\ IF ~arg.configured
       THEN ret' = [ret EXCEPT !.returned = TRUE, !.raised = "ValueError"]
       ELSE \E outcome \in AttemptOutcomes :
              IF outcome = "content"
                THEN ret' = [ret EXCEPT !.returned = TRUE, !.content = outcome,
                                        !.log = Append(@, outcome),
                                        !.attempt = @ + 1]
                ELSE ret' = [ret EXCEPT
                               !.last_exception = outcome,
                               !.log = Append(@, outcome),
                               !.slept =
                                  IF ret.attempt < arg.max_retries
                                    THEN Append(@, sleep_time(arg.retry_delay, ret.attempt))
                                    ELSE @,
                               !.attempt = @ + 1]
  /\ UNCHANGED <<now, tenantKnown, tenant, conv, guarantors, gconv, outbox, pc, msg, loc,
                 overlaps, faults, arg>>

\* lines 403-411: the loop has ended without a return
download_media_exhausted ==
  /\ arg.fn = "download_media"
  /\ ~ret.returned
  /\ ret.attempt > arg.max_retries
  /\ ret' = [ret EXCEPT !.returned = TRUE, !.raised = ret.last_exception]
  /\ UNCHANGED <<now, tenantKnown, tenant, conv, guarantors, gconv, outbox, pc, msg, loc,
                 overlaps, faults, arg>>

InitDownload ==
  /\ InitState
  /\ arg \in DownloadArgs
  /\ ret = StartedCall

NextDownload ==
  \/ download_media_attempt
  \/ download_media_exhausted

SpecDownload == InitDownload /\ [][NextDownload]_vars

(***************************************************************************)
(* Properties of the conversation flows.                                   *)
(***************************************************************************)
\* a guarantors row of the tenant carries the number and its conversation is
\* in the state
GuarantorInState(n, state) ==
  \E i \in 1..Len(guarantors) :
    /\ guarantors[i].tenant_id = TenantId
    /\ guarantors[i].guarantor_number = n
    /\ gconv[guarantors[i].phone_number].exists
    /\ gconv[guarantors[i].phone_number].current_state = state

\* C1: with the tenant's messages handled one at a time, the stored
\* current_state never changes to a state earlier in the order GREETING ..
\* COMPLETED, unless the step is the reset of a conversation whose
\* last_message_time is older than the timeout, which puts it at GREETING.
C1_StateMovesForward ==
  [][(conv.exists /\ StateRank(conv'.current_state) < StateRank(conv.current_state))
       => \E t \in Threads :
            /\ pc[t] = "load"
            /\ pc'[t] = "dispatch"
            /\ now - conv.last_message_time > timeout_hours
            /\ conv'.current_state = "GREETING"]_vars

\* a timed out conversation that had advanced to GUARANTOR_2 was reset
C1_Witness ==
  \E t \in Threads :
    /\ loc[t].reset
    /\ loc[t].first.current_state = "GUARANTOR_2"
    /\ conv.current_state = "GREETING"

\* C2: a tenant message that finds last_message_time older than the timeout
\* is dispatched on a fresh row: the handler gets state GREETING with an
\* empty context_data, the stored row is that fresh row, and the row stored
\* by the handling holds only what the greeting derives from the tenant
\* lookup, no key gathered by the conversation before the reset.
C2_TimeoutResetBeforeDispatch ==
  [][\A t \in Threads :
       /\ (/\ pc[t] = "load"
           /\ pc'[t] = "dispatch"
           /\ conv.exists
           /\ now - conv.last_message_time > timeout_hours)
            => /\ loc'[t].snap.current_state = "GREETING"
               /\ loc'[t].snap.context_data = EmptyDict
               /\ conv'.current_state = "GREETING"
               /\ conv'.context_data = EmptyDict
       /\ (/\ pc[t] = "dispatch"
           /\ loc[t].reset
           /\ pc'[t] = "respond")
            => /\ loc[t].snap.current_state = "GREETING"
               /\ DOMAIN conv'.context_data \subseteq {"tenant_id", "lookup_required"}]_vars

\* a message was handled after the reset of a conversation that was waiting
\* for a document
C2_Witness ==
  \E t \in Threads :
    /\ pc[t] = "respond"
    /\ loc[t].reset
    /\ "current_document" \in DOMAIN loc[t].first.context_data

\* C3, as stated: if the tenant's conversation state is COMPLETED, guarantor
\* records number 1 and number 2 both exist and the conversation state of
\* each of them is COMPLETED.
C3_CompletedImpliesGuarantorsCompleted ==
  conv.current_state = "COMPLETED" =>
    \A n \in {1, 2} : GuarantorInState(n, "COMPLETED")

\* C3, amended: if the tenant's conversation state is COMPLETED, guarantor
\* records number 1 and number 2 both exist for the tenant.
C3_CompletedImpliesGuarantorsExist ==
  conv.current_state = "COMPLETED" =>
    \A n \in {1, 2} :
      \E i \in 1..Len(guarantors) :
        /\ guarantors[i].tenant_id = TenantId
        /\ guarantors[i].guarantor_number = n

\* the tenant's conversation is COMPLETED while a guarantor still uploads
C3_Witness ==
  /\ conv.current_state = "COMPLETED"
  /\ GuarantorInState(2, "DOCUMENTS")

\* C4: once both guarantors of the tenant are in conversation state
\* COMPLETED, the tenant's whatsapp_status is completed.
C4_BothCompletedTenantCompleted ==
  (\A n \in {1, 2} : GuarantorInState(n, "COMPLETED"))
    => tenant.whatsapp_status = "completed"

\* C5: once both guarantors of the tenant are in conversation state
\* COMPLETED, exactly one completion notice has gone out to the tenant.
C5_ExactlyOneTenantNotice ==
  (\A n \in {1, 2} : GuarantorInState(n, "COMPLETED"))
    => outbox.tenant_completion = 1

\* C6: the handling of an upload that validation rejects leaves the party's
\* conversation row as it was: the state stays DOCUMENTS and
\* current_document stays the slot that was requested.
C6_RejectedUploadKeepsState ==
  [][\A t \in Threads :
       /\ (/\ pc[t] = "dispatch"
           /\ pc'[t] = "respond"
           /\ loc[t].snap.current_state = "DOCUMENTS"
           /\ loc'[t].document_type # NoneVal
           /\ ~loc'[t].result.is_valid)
            => /\ conv' = conv
               /\ conv'.current_state = "DOCUMENTS"
               /\ Get(conv'.context_data, "current_document", NoneVal)
                    = Get(loc[t].snap.context_data, "current_document", NoneVal)
       /\ (/\ pc[t] = "g_handle"
           /\ pc'[t] = "respond"
           /\ loc[t].gstate = "DOCUMENTS"
           /\ loc'[t].document_type # NoneVal
           /\ ~loc'[t].result.is_valid)
            => /\ gconv' = gconv
               /\ gconv'[loc[t].phone].current_state = "DOCUMENTS"
               /\ Get(gconv'[loc[t].phone].context_data, "current_document", NoneVal)
                    = loc'[t].document_type]_vars

\* an upload of the tenant was rejected earlier and an upload of a guarantor
\* has just been rejected
C6_Witness ==
  /\ \E d \in DOMAIN tenant.documents_status : tenant.documents_status[d] = "rejected"
  /\ \E t \in Threads :
       /\ pc[t] = "respond"
       /\ msg[t].phone \in GuarantorPhones
       /\ loc[t].document_type # NoneVal
       /\ ~loc[t].result.is_valid

\* C7: in CONFIRMATION and PERSONAL_INFO the conversation row is written
\* only in the handling of a message for which the gateway reported
\* is_valid = true; after is_valid = false the row is as it was.
C7_InvalidReplyKeepsState ==
  [][\A t \in Threads :
       (/\ pc[t] = "dispatch"
        /\ pc'[t] = "respond"
        /\ loc[t].snap.current_state \in {"CONFIRMATION", "PERSONAL_INFO"})
         => (conv' # conv => loc'[t].result.is_valid)]_vars

\* a reply that carries confirmed = true but is_valid = false was handled and
\* the conversation is still in CONFIRMATION
C7_Witness ==
  \E t \in Threads :
    /\ pc[t] = "respond"
    /\ loc[t].snap.current_state = "CONFIRMATION"
    /\ ~loc[t].result.is_valid
    /\ Get(loc[t].result.parsed_data, "confirmed", NoneVal) = "True"
    /\ conv.current_state = "CONFIRMATION"

C9_UniqueGuarantorNumber ==
  /\ \A i, j \in get_guarantors_by_tenant(TenantId) :
       i # j => guarantors[i].guarantor_number # guarantors[j].guarantor_number
  /\ Cardinality(get_guarantors_by_tenant(TenantId)) <= 2

C11_SequencerSuccessor ==
  (arg.fn = "_get_next_document" /\ ret.returned) =>
    LET known == \/ arg.tenant_occupation # NoneVal
                 \/ Get(arg.conversation_context, "tenant_occupation", NoneVal) # NoneVal
        F == IF known /\ arg.classified = "pnl" THEN "pnl" ELSE "payslips"
        d == arg.current_document
    IN /\ d = "id_card" => ret.value = "sephach"
       /\ d = "sephach" => ret.value = F
       /\ d = F => ret.value = "bank_statements"
       /\ d = "bank_statements" => ret.value = NoneVal

\* the call for SEPHACH with an occupation held only by the context and
\* classified as self-employed has returned PNL
C11_Witness ==
  /\ arg.fn = "_get_next_document"
  /\ arg.current_document = "sephach"
  /\ arg.tenant_occupation = NoneVal
  /\ Get(arg.conversation_context, "tenant_occupation", NoneVal) = "stated"
  /\ arg.classified = "pnl"
  /\ ret.returned
  /\ ret.value = "pnl"

C13_CompletedAfterBankStatements ==
  [][\A t \in Threads :
       (/\ pc[t] = "g_handle"
        /\ pc'[t] = "respond"
        /\ loc'[t].document_type = "bank_statements"
        /\ loc'[t].result.is_valid
        /\ \A d \in {"id_card", "sephach", "payslips"} :
             Get(guarantors[loc[t].gid].documents_status, d, NoneVal) = "validated")
         => /\ gconv'[loc[t].phone].current_state = "COMPLETED"
            /\ loc[t].phone \in outbox'.guarantor_completion]_vars

\* C14: a guarantor's stored current_state never changes to an earlier state
\* in the order GREETING, DOCUMENTS, COMPLETED; in particular no step changes
\* it once it is COMPLETED.  (The guarantor flow has no timeout reset, so no
\* step is excepted.)
C14_GuarantorStateMovesForward ==
  [][\A p \in GuarantorPhones :
       LET rank(state) == IF state = "GREETING" THEN 1
                          ELSE IF state = "DOCUMENTS" THEN 2 ELSE 3
       IN gconv[p].exists =>
            /\ rank(gconv'[p].current_state) >= rank(gconv[p].current_state)
            /\ gconv[p].current_state = "COMPLETED" => gconv'[p] = gconv[p]]_vars

\* C15: each guarantor is sent the introduction at most once.
C15_IntroductionAtMostOnce ==
  \A id \in 1..Len(guarantors) : outbox.intro[id] <= 1

C17_AlwaysUsableOutcome ==
  arg.fn = "validate_human_response" /\ ret.returned /\ arg.initialized =>
    /\ ~ret.result.raised
    /\ {"is_valid", "feedback", "parsed_data", "confidence"}
          \subseteq DOMAIN ret.result.value

\* C18: when the external model returns empty parsed_data for a confirmation
\* question, the result comes from the rule-based fallback and its parsed_data
\* holds the key confirmed with the value true, false or null
C18_FallbackYieldsConfirmed ==
  /\ arg.fn = "validate_human_response"
  /\ ret.returned
  /\ arg.initialized
  /\ arg.question = {}
  /\ arg.context = EmptyDict
  /\ arg.outcome.kind = "object"
  /\ "parsed_data" \in DOMAIN arg.outcome.result
  /\ arg.outcome.result.parsed_data = EmptyDict
  => LET parsed_data == ret.result.value.parsed_data
     IN /\ "confirmed" \in DOMAIN parsed_data
        /\ parsed_data["confirmed"] \in {"True", "False", NoneVal}

\* C20: when a guarantor's upload for the id_card slot is rejected with a list
\* of errors, the response text returned for that message contains each of
\* those error strings
C20_RejectionResponseQuotesErrors ==
  \A t \in Threads :
    /\ pc[t] = "respond"
    /\ msg[t].phone \in GuarantorPhones
    /\ loc[t].gstate = "DOCUMENTS"
    /\ loc[t].document_type = "id_card"
    /\ ~loc[t].result.is_valid
    /\ loc[t].errors # {}
    => loc[t].errors \subseteq loc[t].response

C21_NoWriteFromStaleRead ==
  [][\A t \in Threads :
       /\ pc[t] \in {"dispatch", "upsert"}
       /\ pc'[t] = "respond"
       /\ conv' # conv
       => conv = loc[t].snap]_vars

\* C22: an event that caused a transition and is delivered again, with the
\* collaborators extracting from it what they extracted the first time,
\* leaves the sender's conversation row and the tenant and guarantor records
\* as the first handling left them
C22_RedeliveryChangesNothing ==
  \A t \in Threads :
    /\ pc[t] = "respond"
    /\ Redelivered(t)
    /\ loc[t].result = msg[t].first.result
    /\ loc[t].name = msg[t].first.name
    /\ loc[t].phone = msg[t].first.contact
    => /\ conv = msg[t].first.conv
       /\ gconv = msg[t].first.gconv
       /\ tenant = msg[t].first.tenant
       /\ guarantors = msg[t].first.guarantors

\* C23: once the tenant's state is past GUARANTOR_n, guarantor n has a
\* conversation row (initialised to DOCUMENTS at id_card when the guarantor
\* was introduced), whether or not the introduction could be sent
C23_GuarantorConversationExists ==
  \A n \in {1, 2} :
    /\ conv.exists
    /\ StateRank(conv.current_state) > StateRank(TenantStates[4 + n])
    => \E i \in 1..Len(guarantors) :
         /\ guarantors[i].tenant_id = TenantId
         /\ guarantors[i].guarantor_number = n
         /\ gconv[guarantors[i].phone_number].exists

\* C24: a guarantor's message that arrives after the timeout threshold is
\* dispatched on a conversation that was reset: the row is gone or back at
\* its initial state with the context of the flow discarded
C24_GuarantorTimeoutReset ==
  \A t \in Threads :
    /\ pc[t] = "g_handle"
    /\ loc[t].grow.exists
    /\ _is_conversation_timed_out(loc[t].grow)
    => \/ ~gconv[loc[t].phone].exists
       \/ /\ loc[t].gstate \in {"GREETING", "DOCUMENTS"}
          /\ gconv[loc[t].phone].context_data \in {EmptyDict, InitialGuarantorRow.context_data}

\* C25: check_guarantor_completion reports all_completed only when the
\* tenant has a guarantor 1 and a guarantor 2 and each of the tenant's
\* guarantors has every required document validated
C25_AllCompletedNeedsBothSlots ==
  check_guarantor_completion(TenantId) =>
    /\ \A n \in {1, 2} :
         \E i \in get_guarantors_by_tenant(TenantId) : guarantors[i].guarantor_number = n
    /\ \A i \in get_guarantors_by_tenant(TenantId), d \in RequiredDocs :
         Get(guarantors[i].documents_status, d, NoneVal) = "validated"

\* C26: the handling of a message in GUARANTOR_n changes the tenant's row
\* only when a name and a phone were parsed and guarantor n was stored with
\* them, and then to the next state; so a row in GUARANTOR_2 comes with a
\* guarantor 1 record and a row in COMPLETED with a guarantor 2 record
C26_AdvanceNeedsStoredGuarantor ==
  [][/\ \A t \in Threads :
          /\ pc[t] \in {"dispatch", "upsert"}
          /\ loc[t].snap.current_state \in {"GUARANTOR_1", "GUARANTOR_2"}
          /\ pc'[t] # pc[t]
          /\ conv' # conv
          => LET n == GuarantorNumber(loc[t].snap.current_state)
             IN /\ loc[t].name # NoneVal
                /\ loc[t].phone # NoneVal
                /\ conv'.current_state = TenantStates[5 + n]
                /\ \E i \in 1..Len(guarantors') :
                     /\ guarantors'[i].tenant_id = TenantId
                     /\ guarantors'[i].guarantor_number = n
                     /\ guarantors'[i].full_name = loc[t].name
                     /\ guarantors'[i].phone_number = loc[t].phone
     /\ \A n \in {1, 2} :
          conv'.exists /\ conv'.current_state = TenantStates[5 + n]
            => \E i \in 1..Len(guarantors') :
                 /\ guarantors'[i].tenant_id = TenantId
                 /\ guarantors'[i].guarantor_number = n]_vars

\* a worker has stored guarantor 1 from a parsed name and phone, introduced
\* the guarantor and moved the tenant to GUARANTOR_2
C26_Witness ==
  \E t \in Threads :
    /\ pc[t] = "respond"
    /\ loc[t].snap.current_state = "GUARANTOR_1"
    /\ loc[t].name # NoneVal
    /\ loc[t].wrote
    /\ loc[t].fault = NoneVal
    /\ gconv[loc[t].phone].exists
    /\ conv.current_state = "GUARANTOR_2"

\* C27: a reply handled in CONFIRMATION moves the row only when the parsed
\* result has confirmed = true, and then to PERSONAL_INFO with current_field
\* = occupation; with confirmed false, null or absent the row stays as it was
C27_AdvanceOnlyOnConfirmedTrue ==
  \A t \in Threads :
    /\ pc[t] = "respond"
    /\ loc[t].snap.current_state = "CONFIRMATION"
    => IF Get(loc[t].result.parsed_data, "confirmed", NoneVal) = "True"
         THEN \/ conv = loc[t].snap
              \/ /\ conv.current_state = "PERSONAL_INFO"
                 /\ conv.context_data =
                      Merge(loc[t].snap.context_data, [k \in {"current_field"} |-> "occupation"])
         ELSE conv = loc[t].snap

\* C28: in PERSONAL_INFO current_field is occupation, family_status or
\* number_of_children; a valid answer moves it to the next of them with the
\* state kept, the valid answer to number_of_children moves the tenant to
\* DOCUMENTS with current_document = id_card, and any other handling
\* leaves the row alone
C28_FieldsAdvanceInOrder ==
  /\ conv.exists /\ conv.current_state = "PERSONAL_INFO"
       => Get(conv.context_data, "current_field", "occupation")
            \in {"occupation", "family_status", "number_of_children"}
  /\ \A t \in Threads :
       /\ pc[t] = "respond"
       /\ loc[t].snap.current_state = "PERSONAL_INFO"
       => LET context_data == loc[t].snap.context_data
              current_field == Get(context_data, "current_field", "occupation")
          IN IF loc[t].fault = "handler" \/ ~loc[t].result.is_valid
               THEN conv = loc[t].snap
             ELSE IF current_field = "occupation"
               THEN /\ conv.current_state = "PERSONAL_INFO"
                    /\ conv.context_data =
                         Merge(context_data, [k \in {"current_field"} |-> "family_status"])
             ELSE IF current_field = "family_status"
               THEN /\ conv.current_state = "PERSONAL_INFO"
                    /\ conv.context_data =
                         Merge(context_data, [k \in {"current_field"} |-> "number_of_children"])
             ELSE /\ conv.current_state = "DOCUMENTS"
                  /\ Get(conv.context_data, "current_document", NoneVal) = "id_card"
                  /\ \A k \in DOMAIN context_data : conv.context_data[k] = context_data[k]

\* a worker has handled the valid answer to the last field and the tenant is
\* at the first document
C28_Witness ==
  \E t \in Threads :
    /\ pc[t] = "respond"
    /\ loc[t].snap.current_state = "PERSONAL_INFO"
    /\ Get(loc[t].snap.context_data, "current_field", NoneVal) = "number_of_children"
    /\ loc[t].result.is_valid
    /\ loc[t].fault # "handler"
    /\ conv.current_state = "DOCUMENTS"

\* C29: when the document an upload was validated as is not in the sequence
\* derived for the tenant's occupation in that handling, the tenant is not
\* moved to GUARANTOR_1 as after the last document
C29_UnknownDocumentNotEndOfSequence ==
  \A t \in Threads :
    /\ pc[t] = "respond"
    /\ loc[t].snap.current_state = "DOCUMENTS"
    /\ loc[t].result.is_valid
    /\ loc[t].document_type # NoneVal
    /\ loc[t].document_type \notin
         {"id_card", "sephach", "bank_statements",
          IF loc[t].classified # NoneVal THEN loc[t].classified ELSE "payslips"}
    => conv.current_state # "GUARANTOR_1"

\* C30: the gateway returns the external model's object as it is, unless the
\* object's parsed_data is empty or is one field with the value null,
\* whatever the field's name; then it returns what the rule-based fallback
\* returns for the prompt
C30_FallbackOnEmptyOrSingleNull ==
  /\ arg.fn = "validate_human_response"
  /\ ret.returned
  /\ arg.initialized
  /\ arg.outcome.kind = "object"
  /\ "parsed_data" \in DOMAIN arg.outcome.result
  => LET parsed_data == arg.outcome.result.parsed_data
         prompt == _create_validation_prompt(arg.question, arg.response, arg.context)
     IN IF \/ parsed_data = EmptyDict
           \/ /\ Cardinality(DOMAIN parsed_data) = 1
              /\ \A k \in DOMAIN parsed_data : parsed_data[k] = NoneVal
          THEN ret.result.value = _validate_response_rules_fallback(prompt)
          ELSE ret.result.value = arg.outcome.result

\* C31: a guarantor message that finds a stored state other than GREETING,
\* DOCUMENTS and COMPLETED is handled as in DOCUMENTS: a message that is not
\* an upload changes no record, and an upload is put to validation
C31_LegacyStateHandledAsDocuments ==
  [][\A t \in Threads :
       (/\ pc[t] = "g_handle"
        /\ pc'[t] = "respond"
        /\ loc[t].gstate \notin {"GREETING", "DOCUMENTS", "COMPLETED"})
       => /\ msg[t].kind # "media" => UNCHANGED <<guarantors, gconv, outbox>>
          /\ msg[t].kind = "media" => loc'[t].document_type # NoneVal]_vars

C33_RejectedReplyAnsweredWithFeedback ==
  \A t \in Threads :
    (/\ pc[t] = "respond"
     /\ loc[t].snap.current_state \in {"CONFIRMATION", "PERSONAL_INFO"}
     /\ loc[t].fault = NoneVal
     /\ ~loc[t].result.is_valid)
    => loc[t].text = FeedbackText

\* C34: download_media makes at most max_retries + 1 attempts; the content
\* is returned at the first attempt that succeeds, which is then the last
\* one made; the wait after the failed attempt k is retry_delay * 2^k; when
\* every attempt has failed the error raised is that of the last attempt
C34_BoundedAttemptsWithBackoff ==
  arg.fn = "download_media" =>
    LET attempts == Len(ret.log)
        failed == {k \in 1..attempts : ret.log[k] # "content"}
    IN /\ attempts <= arg.max_retries + 1
       /\ \A k \in 1..attempts : ret.log[k] = "content" => k = attempts /\ ret.returned
       /\ ret.content # NoneVal <=> (attempts > 0 /\ ret.log[attempts] = "content")
       /\ Len(ret.slept) = Cardinality(failed \ {arg.max_retries + 1})
       /\ \A k \in 1..Len(ret.slept) : ret.slept[k] = arg.retry_delay * (2 ^ (k - 1))
       /\ (ret.returned /\ attempts > 0 /\ ret.content = NoneVal)
            => /\ attempts = arg.max_retries + 1
               /\ ret.raised = ret.log[attempts]

\* a call with three retries has failed four times, waited three times and
\* raised
C34_Witness ==
  /\ arg.fn = "download_media"
  /\ arg.max_retries = 3
  /\ ret.returned
  /\ ret.raised # NoneVal
  /\ Len(ret.log) = 4
  /\ Len(ret.slept) = 3

\* C35: an upload of a guarantor is validated as the document type that the
\* guarantor's current_document names, whichever slot of the sequence that is
C35_UploadValidatedAsRequestedSlot ==
  \A t \in Threads :
    (/\ pc[t] = "respond"
     /\ loc[t].gid # 0
     /\ msg[t].kind = "media"
     /\ loc[t].document_type # NoneVal)
    => loc[t].doc_type = loc[t].document_type

\* C36: a guarantor whose conversation is COMPLETED has status validated
\* recorded for every document check_guarantor_completion requires
C36_CompletedGuarantorHasAllDocuments ==
  \A i \in 1..Len(guarantors) :
    (/\ find_guarantor_by_phone(guarantors[i].phone_number) = i
     /\ gconv[guarantors[i].phone_number].exists
     /\ gconv[guarantors[i].phone_number].current_state = "COMPLETED")
    => \A d \in RequiredDocs :
         Get(guarantors[i].documents_status, d, NoneVal) = "validated"

\* C37: when the delete of a timeout reset fails, no handler is run on the
\* row that timed out, with its current_state and context_data
C37_FailedResetNotProcessedOnStaleRow ==
  \A t \in Threads :
    (/\ pc[t] \in {"dispatch", "upsert", "respond"}
     /\ loc[t].fault = "reset")
    => ~(/\ loc[t].snap.exists
         /\ loc[t].snap.last_message_time < now - timeout_hours
         /\ loc[t].snap.current_state = loc[t].first.current_state
         /\ loc[t].snap.context_data = loc[t].first.context_data)

\* C38: the rule-based fallback does not answer confirmed = true for a reply
\* that contains a rejection keyword
C38_RejectionKeywordNeverConfirms ==
  (/\ arg.fn = "validate_human_response"
   /\ ret.returned
   /\ arg.initialized
   /\ arg.outcome.kind # "object"
   /\ Mentions(arg.response, "no"))
  => Get(ret.result.value.parsed_data, "confirmed", NoneVal) # "True"

\* C39: a handling that records the last document of a guarantor's sequence
\* as validated leaves the guarantor's conversation COMPLETED, also when the
\* completion message could not be sent; a handling in which the message
\* went out and a later write failed is left aside
C39_CompletedWhateverTheSendOutcome ==
  [][\A t \in Threads :
       LET phone == loc[t].phone
           gid == loc[t].gid
           current_document ==
             Get(gconv[phone].context_data, "current_document", "id_card")
       IN (/\ pc[t] = "g_handle"
           /\ pc'[t] = "respond"
           /\ msg[t].kind = "media"
           /\ gid # 0
           /\ current_document = GuarantorSequence[Len(GuarantorSequence)]
           /\ Get(guarantors[gid].documents_status, current_document, NoneVal)
                # "validated"
           /\ Get(guarantors'[gid].documents_status, current_document, NoneVal)
                = "validated")
          => \/ gconv'[phone].current_state = "COMPLETED"
             \/ phone \in outbox'.guarantor_completion]_vars

====
